---- MODULE Spec2Model ----
(***************************************************************************)
(* A model of openmw-modchecker.py: reading the data paths of an           *)
(* openmw.cfg, enumerating the asset files of a mod directory, and         *)
(* check_mod, which walks the load order after a mod and removes the file  *)
(* names later mods provide.                                               *)
(*                                                                         *)
(* Strings are sequences of one-character strings, so that startswith,    *)
(* "in", split, strip, replace, rstrip and lower are computed, not         *)
(* assumed.  A file system is a sequence of files in os.walk order, each   *)
(* with the directory os.walk reports for it (r) and its name (f).         *)
(***************************************************************************)
EXTENDS Naturals, Sequences, FiniteSets, TLC

VARIABLES
    cfg_exists,      \* os.path.isfile(openmw_cfg)
    cfg_lines,       \* cfg.readlines()
    fs,              \* the files on disk
    single_arg,      \* parsed.mod_dir_name (<<>> when not given)
    pc,              \* position in main / check_mod
    exit_code,       \* <<status>> once the process has exited, <<>> while it runs
    all_data_paths,  \* main: the OrderedDict read_openmw_cfg returned
    mod_dict,        \* main: mod_dict
    single_mod,      \* main: single_mod
    mi,              \* main: index of the for loop over all_data_paths.values()
    _mod,            \* check_mod: the mod under analysis
    mod1_files,      \* check_mod: its files not yet overwritten
    ow_by,           \* check_mod: the mods that overwrote a file
    start_checking,  \* check_mod: the mod has been seen in the load order
    li,              \* check_mod: index of the for loop over all_paths.items()
    next_mod,        \* check_mod: the mod of the current entry
    next_mod_files,  \* check_mod: its files
    fi,              \* check_mod: index of the for loop over next_mod_files
    outcome,         \* check_mod: which result message was logged
    filecount,       \* check_mod: the "remaining filecount" logged
    calls,           \* history: every check_mod invocation, in order
    removers,        \* history: the mod of every mod1_files.remove, in order
    walked,          \* history: load-order entries iterated by this check_mod
    enums            \* history: get_mod_file_list calls for next_mod by this check_mod

vars == <<cfg_exists, cfg_lines, fs, single_arg, pc, exit_code, all_data_paths,
          mod_dict, single_mod, mi, _mod, mod1_files, ow_by, start_checking,
          li, next_mod, next_mod_files, fi, outcome, filecount, calls,
          removers, walked, enums>>

---------------------------------------------------------------------------
(* Bounds                                                                  *)

\* the longest openmw.cfg, in lines
MaxLines == 3

---------------------------------------------------------------------------
(* String primitives                                                       *)

Range(s) == {s[i] : i \in 1..Len(s)}

\* str.startswith
StartsWith(s, pre) ==
    /\ Len(pre) <= Len(s)
    /\ SubSeq(s, 1, Len(pre)) = pre

\* sub in s
Contains(s, sub) ==
    \E i \in 0..(Len(s) - Len(sub)) : SubSeq(s, i + 1, i + Len(sub)) = sub

LowerChar(c) ==
    CASE c = "A" -> "a" [] c = "B" -> "b" [] c = "C" -> "c" [] c = "D" -> "d"
      [] c = "E" -> "e" [] c = "F" -> "f" [] c = "G" -> "g" [] c = "H" -> "h"
      [] c = "I" -> "i" [] c = "J" -> "j" [] c = "K" -> "k" [] c = "L" -> "l"
      [] c = "M" -> "m" [] c = "N" -> "n" [] c = "O" -> "o" [] c = "P" -> "p"
      [] c = "Q" -> "q" [] c = "R" -> "r" [] c = "S" -> "s" [] c = "T" -> "t"
      [] c = "U" -> "u" [] c = "V" -> "v" [] c = "W" -> "w" [] c = "X" -> "x"
      [] c = "Y" -> "y" [] c = "Z" -> "z" [] OTHER -> c

\* str.lower
Lower(s) == [i \in 1..Len(s) |-> LowerChar(s[i])]

\* the offsets at which sub occurs in s
Occurrences(s, sub) ==
    {i \in 0..(Len(s) - Len(sub)) : SubSeq(s, i + 1, i + Len(sub)) = sub}

Max(S) == CHOOSE x \in S : \A y \in S : y <= x

\* s.split(sub)[-1], for a sub that cannot overlap itself
AfterLast(s, sub) ==
    IF Occurrences(s, sub) = {} THEN s
    ELSE SubSeq(s, Max(Occurrences(s, sub)) + Len(sub) + 1, Len(s))

\* s.replace(c, "") for a single character c
RemoveChar(s, c) == SelectSeq(s, LAMBDA x : x # c)

Whitespace == {" ", "\n", "\t", "\r", "\f"}

RECURSIVE RStripChars(_, _)
RStripChars(s, cs) ==
    IF Len(s) > 0 /\ s[Len(s)] \in cs THEN RStripChars(SubSeq(s, 1, Len(s) - 1), cs)
    ELSE s

RECURSIVE LStripChars(_, _)
LStripChars(s, cs) ==
    IF Len(s) > 0 /\ s[1] \in cs THEN LStripChars(Tail(s), cs)
    ELSE s

\* str.strip(chars)
StripChars(s, cs) == LStripChars(RStripChars(s, cs), cs)

\* str.rstrip()
RStrip(s) == RStripChars(s, Whitespace)

---------------------------------------------------------------------------
(* Program constants                                                       *)

sep == <<"/">>

OK_DIRS == <<
    <<"b","o","o","k","a","r","t">>,
    <<"f","o","n","t","s">>,
    <<"i","c","o","n","s">>,
    <<"m","e","s","h","e","s">>,
    <<"m","u","s","i","c">>,
    <<"s","o","u","n","d">>,
    <<"s","p","l","a","s","h">>,
    <<"t","e","x","t","u","r","e","s">> >>

\* "data="
DataPrefix == <<"d","a","t","a","=">>

\* 'data="'
DataQuote == <<"d","a","t","a","=","\"">>

\* "data files"
DataFiles == <<"d","a","t","a"," ","f","i","l","e","s">>

\* the characters of strip("'\"\n")
QuoteChars == {"'", "\"", "\n"}

---------------------------------------------------------------------------
(* Paths                                                                   *)

\* os.path.join(a, b)
PathJoin(a, b) ==
    IF StartsWith(b, sep) THEN b
    ELSE IF Len(a) = 0 \/ a[Len(a)] = "/" THEN a \o b
    ELSE a \o sep \o b

\* pathlib.Path(p).name: the last component, trailing separators ignored
PathName(p) == AfterLast(RStripChars(p, {"/"}), sep)

\* the directory r is the directory top or lies below it
Under(r, top) ==
    LET t == IF Len(top) > 1 THEN RStripChars(top, {"/"}) ELSE top
    IN  \/ r = t
        \/ StartsWith(r, IF t = sep THEN t ELSE t \o sep)

---------------------------------------------------------------------------
(* get_mod_file_list                                                       *)

\* for d in OK_DIRS: if d in full_file_path.lower(): append(_file.lower())
RECURSIVE OkDirMatches(_, _, _)
OkDirMatches(full, name, k) ==
    IF k > Len(OK_DIRS) THEN <<>>
    ELSE (IF Contains(Lower(full), OK_DIRS[k]) THEN <<Lower(name)>> ELSE <<>>)
         \o OkDirMatches(full, name, k + 1)

RECURSIVE WalkFiles(_, _)
WalkFiles(entries, i) ==
    IF i > Len(entries) THEN <<>>
    ELSE OkDirMatches(PathJoin(entries[i].r, entries[i].f), entries[i].f, 1)
         \o WalkFiles(entries, i + 1)

\* os.walk(mod_dir) yields nothing for a directory that does not exist
get_mod_file_list(mod_dir) ==
    WalkFiles(SelectSeq(fs, LAMBDA e : Under(e.r, mod_dir)), 1)

---------------------------------------------------------------------------
(* read_openmw_cfg                                                         *)

\* the same test without line.lower()
IsDataPathCaseSensitive(line) ==
    StartsWith(line, DataPrefix) /\ ~Contains(line, DataFiles)

\* if line.startswith("data=") and "data files" not in line.lower()
IsDataPath(line) ==
    StartsWith(line, DataPrefix) /\ ~Contains(Lower(line), DataFiles)

NextCount(count) == count + 1

\* the for loop of read_openmw_cfg from line i on, count being the next key
RECURSIVE ReadLines(_, _, _)
ReadLines(line_list, i, count) ==
    IF i > Len(line_list) THEN <<>>
    ELSE IF IsDataPath(line_list[i])
         THEN <<[num |-> count, line |-> line_list[i]]>>
              \o ReadLines(line_list, i + 1, NextCount(count))
         ELSE ReadLines(line_list, i + 1, count)

read_openmw_cfg(line_list) == ReadLines(line_list, 1, 1)

---------------------------------------------------------------------------
(* mod_name_from_data_path                                                 *)

mod_name_from_data_path(datastring) ==
    RStrip(RemoveChar(AfterLast(AfterLast(datastring, DataQuote), sep), "\""))

---------------------------------------------------------------------------
(* Inputs: the command line, the configuration file and the disk           *)

\* parsed.base_mod_dir
base_mod_dir == <<"/","m">>

ModA == <<"a">>
ModB == <<"b">>
ModC == <<"c">>
ModD == <<"d">>

\* parsed.mod_dir_name: not given, mods with a directory, a mod without one
ModArgs == {<<>>, ModA, ModB, ModD}

\* the line  data="<path>"\n
DataLine(path) == DataPrefix \o <<"\"">> \o path \o <<"\"", "\n">>

LineA == DataLine(base_mod_dir \o sep \o ModA)
LineB == DataLine(base_mod_dir \o sep \o ModB)
\* an unquoted entry:  data=/m/c\n
LineC == DataPrefix \o base_mod_dir \o sep \o ModC \o <<"\n">>
\* the base mod directory itself
LineBase == DataLine(base_mod_dir)
\* the game's own directory:  data="/g/Data Files"\n
LineVanilla == DataLine(<<"/","g","/","D","a","t","a"," ","F","i","l","e","s">>)
\* a commented-out entry:  #data="/m/b"\n
LineComment == <<"#">> \o LineB

\* an entry without a directory part:  data="a"\n
LineBare == DataLine(ModA)

CfgLinePool ==
    {LineA, LineB, LineC, LineBase, LineVanilla, LineComment, LineBare}

CfgFiles == UNION {[1..k -> CfgLinePool] : k \in 0..MaxLines}

Textures == OK_DIRS[8]
Meshes == OK_DIRS[4]
Icons == OK_DIRS[3]
Docs == <<"d","o","c","s">>

\* a file named f in the subdirectory sub of the mod m
ModFile(m, sub, f) == [r |-> base_mod_dir \o sep \o m \o sep \o sub, f |-> <<f>>]

\* a = {x, y}, b = {x}, c = {y}
FsAllOverwritten == <<
    ModFile(ModA, Textures, "x"), ModFile(ModA, Textures, "Y"),
    ModFile(ModB, Textures, "X"), ModFile(ModC, Meshes, "y") >>

\* a = {x, y, z}, b = {x}, c = {y}
FsOneLeft == <<
    ModFile(ModA, Textures, "x"), ModFile(ModA, Textures, "y"),
    ModFile(ModA, Textures, "z"),
    ModFile(ModB, Textures, "x"), ModFile(ModC, Textures, "y") >>

\* a has x in two subfolders; c has a file outside every asset directory
FsSameName == <<
    ModFile(ModA, Textures, "X"), ModFile(ModA, Meshes, "x"),
    ModFile(ModB, Textures, "x"), ModFile(ModC, Docs, "x") >>

\* a/textures/icons/y lies in two asset directories at once
FsTwoCategories == <<
    ModFile(ModA, Textures \o sep \o Icons, "y"), ModFile(ModA, Textures, "z"),
    ModFile(ModB, Meshes, "y"), ModFile(ModC, Meshes, "z") >>

\* b overwrites two files of a; c shares no name with a
FsTwoByOne == <<
    ModFile(ModA, Textures, "x"), ModFile(ModA, Meshes, "y"),
    ModFile(ModB, Meshes, "y"), ModFile(ModB, Textures, "x"),
    ModFile(ModB, Textures, "w"), ModFile(ModC, Textures, "v") >>

FileSystems ==
    {FsAllOverwritten, FsOneLeft, FsSameName, FsTwoCategories, FsTwoByOne}

---------------------------------------------------------------------------
(* Conditions and updates of main and check_mod                            *)

\* the same test with < for ==
NoDataPathsNegative(paths) == Len(paths) < 0

\* len(all_data_paths.values()) == 0
NoDataPaths(paths) == Len(paths) = 0

\* mod_path = data_mod_path.replace("data=", "") is overwritten at once by
\* mod_path = data_mod_path.strip("'\"\n")
mod_path_of(data_mod_path) == StripChars(data_mod_path, QuoteChars)

\* mod_dict.update({k: v})
DictUpdate(d, k, v) ==
    [x \in (DOMAIN d) \cup {k} |-> IF x = k THEN v ELSE d[x]]

\* the same test with < for ==
HasNoFilesNegative(files) == Len(files) < 0

\* len(mod1_files) == 0
HasNoFiles(files) == Len(files) = 0

\* os.path.sep + _mod in p
FoundIn(p, m) == Contains(p, sep \o m)

\* the same test against the path form of the mod
IsSelfPath(next, m) == next = sep \o m

\* next_mod == _mod
IsSelf(next, m) == next = m

\* list.remove(x): the first occurrence goes
RemoveFirst(s, x) ==
    LET i == CHOOSE j \in 1..Len(s) : s[j] = x /\ \A k \in 1..(j - 1) : s[k] # x
    IN  SubSeq(s, 1, i - 1) \o SubSeq(s, i + 1, Len(s))

\* the append without the membership test
OwByAppendAlways(ow, m) == Append(ow, m)

\* if next_mod not in ow_by: ow_by.append(next_mod)
OwByAppend(ow, m) == IF m \in Range(ow) THEN ow ELSE Append(ow, m)

---------------------------------------------------------------------------
(* Init                                                                    *)

Init ==
    /\ cfg_exists \in BOOLEAN
    /\ cfg_lines \in (IF cfg_exists THEN CfgFiles ELSE {<<>>})
    /\ fs \in FileSystems
    /\ single_arg \in ModArgs
    /\ pc = "main"
    /\ exit_code = <<>>
    /\ all_data_paths = <<>>
    /\ mod_dict = <<>>
    /\ single_mod = <<>>
    /\ mi = 0
    /\ _mod = <<>>
    /\ mod1_files = <<>>
    /\ ow_by = <<>>
    /\ start_checking = FALSE
    /\ li = 0
    /\ next_mod = <<>>
    /\ next_mod_files = <<>>
    /\ fi = 0
    /\ outcome = "none"
    /\ filecount = 0
    /\ calls = <<>>
    /\ removers = <<>>
    /\ walked = 0
    /\ enums = 0

inputs == <<cfg_exists, cfg_lines, fs, single_arg>>
main_locals == <<all_data_paths, mod_dict, single_mod, mi>>
cm_locals == <<_mod, mod1_files, ow_by, start_checking, li, next_mod,
               next_mod_files, fi, outcome, filecount>>
history == <<calls, removers, walked, enums>>

---------------------------------------------------------------------------
(* main                                                                    *)

\* the invocation check_mod(m, all_data_paths, base_mod_dir)
Call(m) ==
    /\ _mod' = m
    /\ calls' = Append(calls, [mod |-> m, entry |-> mi,
                               npaths |-> Len(all_data_paths)])
    /\ pc' = "cm_begin"
    /\ UNCHANGED <<mod1_files, ow_by, start_checking, li, next_mod,
                   next_mod_files, fi, outcome, filecount, removers, walked,
                   enums>>

\* read_openmw_cfg: check_openmw_cfg_path finds no file, error_and_die
CfgNotFound ==
    /\ pc = "main"
    /\ ~cfg_exists
    /\ exit_code' = <<1>>
    /\ pc' = "exit"
    /\ UNCHANGED <<inputs, main_locals, cm_locals, history>>

\* all_data_paths = read_openmw_cfg(openmw_cfg)
ReadCfg ==
    /\ pc = "main"
    /\ cfg_exists
    /\ all_data_paths' = read_openmw_cfg(cfg_lines)
    /\ pc' = "main_paths"
    /\ UNCHANGED <<inputs, exit_code, mod_dict, single_mod, mi, cm_locals,
                   history>>

\* no data paths in the cfg file: error_and_die
NoPaths ==
    /\ pc = "main_paths"
    /\ NoDataPaths(all_data_paths)
    /\ exit_code' = <<1>>
    /\ pc' = "exit"
    /\ UNCHANGED <<inputs, main_locals, cm_locals, history>>

\* if single_mod: ... check_mod(single_mod, all_data_paths, base_mod_dir)
SingleMod ==
    /\ pc = "main_paths"
    /\ ~NoDataPaths(all_data_paths)
    /\ single_arg # <<>>
    /\ single_mod' = single_arg
    /\ IF Len(all_data_paths) > 0
       THEN /\ mod_dict' = DictUpdate(mod_dict, single_arg,
                   get_mod_file_list(PathJoin(base_mod_dir, single_arg)))
            /\ Call(single_arg)
       ELSE /\ pc' = "main_end"
            /\ UNCHANGED <<mod_dict, cm_locals, history>>
    /\ UNCHANGED <<inputs, exit_code, all_data_paths, mi>>

\* else: for data_mod_path in all_data_paths.values():
AllMods ==
    /\ pc = "main_paths"
    /\ ~NoDataPaths(all_data_paths)
    /\ single_arg = <<>>
    /\ mi' = 1
    /\ pc' = "main_loop"
    /\ UNCHANGED <<inputs, exit_code, all_data_paths, mod_dict, single_mod,
                   cm_locals, history>>

\* one iteration of the for loop, up to the call of check_mod
LoopStep ==
    /\ pc = "main_loop"
    /\ mi <= Len(all_data_paths)
    /\ LET data_mod_path == all_data_paths[mi].line
           mod_path == mod_path_of(data_mod_path)
       IN  IF StartsWith(data_mod_path, DataPrefix) /\ mod_path # base_mod_dir
           THEN /\ mod_dict' = DictUpdate(mod_dict, PathName(mod_path),
                                          get_mod_file_list(mod_path))
                /\ single_mod' = PathName(mod_path)
                /\ Call(PathName(mod_path))
                /\ UNCHANGED mi
           ELSE /\ mi' = mi + 1
                /\ UNCHANGED <<pc, mod_dict, single_mod, cm_locals, history>>
    /\ UNCHANGED <<inputs, exit_code, all_data_paths>>

\* the for loop is exhausted
LoopEnd ==
    /\ pc = "main_loop"
    /\ mi > Len(all_data_paths)
    /\ pc' = "main_end"
    /\ UNCHANGED <<inputs, exit_code, main_locals, cm_locals, history>>

\* "End scan"; main returns and the interpreter exits with status 0
EndScan ==
    /\ pc = "main_end"
    /\ exit_code' = <<0>>
    /\ pc' = "exit"
    /\ UNCHANGED <<inputs, main_locals, cm_locals, history>>

\* except KeyboardInterrupt: sys.exit(2); the frames of main and check_mod are gone
Interrupt ==
    /\ pc # "exit"
    /\ exit_code' = <<2>>
    /\ pc' = "exit"
    /\ all_data_paths' = <<>>
    /\ mod_dict' = <<>>
    /\ single_mod' = <<>>
    /\ mi' = 0
    /\ _mod' = <<>>
    /\ mod1_files' = <<>>
    /\ ow_by' = <<>>
    /\ start_checking' = FALSE
    /\ li' = 0
    /\ next_mod' = <<>>
    /\ next_mod_files' = <<>>
    /\ fi' = 0
    /\ outcome' = "none"
    /\ filecount' = 0
    /\ removers' = <<>>
    /\ walked' = 0
    /\ enums' = 0
    /\ UNCHANGED <<inputs, calls>>

---------------------------------------------------------------------------
(* check_mod                                                               *)

\* ow_by = []; mod1_files = get_mod_file_list(...); "has no files" or enter the loop
CmBegin ==
    /\ pc = "cm_begin"
    /\ ow_by' = <<>>
    /\ mod1_files' = get_mod_file_list(PathJoin(base_mod_dir, _mod))
    /\ IF HasNoFiles(mod1_files')
       THEN /\ outcome' = "NO_FILES"
            /\ pc' = "cm_ret"
            /\ UNCHANGED <<start_checking, li>>
       ELSE /\ start_checking' = FALSE
            /\ li' = 1
            /\ pc' = "cm_loop"
            /\ UNCHANGED outcome
    /\ UNCHANGED <<inputs, exit_code, main_locals, _mod, next_mod,
                   next_mod_files, fi, filecount, history>>

\* the entry before the mod has been found, and it is not the mod's
CmBefore ==
    /\ pc = "cm_loop"
    /\ li <= Len(all_data_paths)
    /\ ~start_checking
    /\ ~FoundIn(all_data_paths[li].line, _mod)
    /\ li' = li + 1
    /\ walked' = walked + 1
    /\ UNCHANGED <<inputs, pc, exit_code, main_locals, _mod, mod1_files, ow_by,
                   start_checking, next_mod, next_mod_files, fi, outcome,
                   filecount, calls, removers, enums>>

\* "Found mod ... in the load order at position #num, start checking now"
CmFound ==
    /\ pc = "cm_loop"
    /\ li <= Len(all_data_paths)
    /\ ~start_checking
    /\ FoundIn(all_data_paths[li].line, _mod)
    /\ start_checking' = TRUE
    /\ li' = li + 1
    /\ walked' = walked + 1
    /\ UNCHANGED <<inputs, pc, exit_code, main_locals, _mod, mod1_files, ow_by,
                   next_mod, next_mod_files, fi, outcome, filecount, calls,
                   removers, enums>>

\* elif start_checking, no file left: "has been overwritten by ..."; return False
CmOverwritten ==
    /\ pc = "cm_loop"
    /\ li <= Len(all_data_paths)
    /\ start_checking
    /\ ~(Len(mod1_files) > 0)
    /\ outcome' = "SAFE_TO_REMOVE"
    /\ pc' = "cm_ret"
    /\ walked' = walked + 1
    /\ UNCHANGED <<inputs, exit_code, main_locals, _mod, mod1_files, ow_by,
                   start_checking, li, next_mod, next_mod_files, fi, filecount,
                   calls, removers, enums>>

\* next_mod == _mod: continue
CmSkipSelf ==
    /\ pc = "cm_loop"
    /\ li <= Len(all_data_paths)
    /\ start_checking
    /\ Len(mod1_files) > 0
    /\ next_mod' = mod_name_from_data_path(all_data_paths[li].line)
    /\ IsSelf(next_mod', _mod)
    /\ li' = li + 1
    /\ walked' = walked + 1
    /\ UNCHANGED <<inputs, pc, exit_code, main_locals, _mod, mod1_files, ow_by,
                   start_checking, next_mod_files, fi, outcome, filecount,
                   calls, removers, enums>>

\* next_mod_files = get_mod_file_list(...): none, continue; some, enter the for loop
CmNextMod ==
    /\ pc = "cm_loop"
    /\ li <= Len(all_data_paths)
    /\ start_checking
    /\ Len(mod1_files) > 0
    /\ next_mod' = mod_name_from_data_path(all_data_paths[li].line)
    /\ ~IsSelf(next_mod', _mod)
    /\ next_mod_files' = get_mod_file_list(PathJoin(base_mod_dir, next_mod'))
    /\ enums' = enums + 1
    /\ walked' = walked + 1
    /\ IF Len(next_mod_files') = 0
       THEN /\ li' = li + 1
            /\ UNCHANGED <<pc, fi>>
       ELSE /\ fi' = 1
            /\ pc' = "cm_files"
            /\ UNCHANGED li
    /\ UNCHANGED <<inputs, exit_code, main_locals, _mod, mod1_files, ow_by,
                   start_checking, outcome, filecount, calls, removers>>

\* for _file in next_mod_files: if _file in mod1_files: remove it, note next_mod
CmFile ==
    /\ pc = "cm_files"
    /\ fi <= Len(next_mod_files)
    /\ IF next_mod_files[fi] \in Range(mod1_files)
       THEN /\ mod1_files' = RemoveFirst(mod1_files, next_mod_files[fi])
            /\ ow_by' = OwByAppend(ow_by, next_mod)
       ELSE UNCHANGED <<mod1_files, ow_by>>
    /\ removers' = IF Len(mod1_files') < Len(mod1_files)
                   THEN Append(removers, next_mod)
                   ELSE removers
    /\ fi' = fi + 1
    /\ UNCHANGED <<inputs, pc, exit_code, main_locals, _mod, start_checking, li,
                   next_mod, next_mod_files, outcome, filecount, calls, walked,
                   enums>>

\* the for loop over next_mod_files ends: "does not overwrite", next entry
CmFilesDone ==
    /\ pc = "cm_files"
    /\ fi > Len(next_mod_files)
    /\ li' = li + 1
    /\ pc' = "cm_loop"
    /\ UNCHANGED <<inputs, exit_code, main_locals, _mod, mod1_files, ow_by,
                   start_checking, next_mod, next_mod_files, fi, outcome,
                   filecount, history>>

\* the load order is exhausted: "can stay, remaining filecount: ..."
CmCanStay ==
    /\ pc = "cm_loop"
    /\ li > Len(all_data_paths)
    /\ outcome' = "MUST_KEEP"
    /\ filecount' = Len(mod1_files)
    /\ pc' = "cm_ret"
    /\ UNCHANGED <<inputs, exit_code, main_locals, _mod, mod1_files, ow_by,
                   start_checking, li, next_mod, next_mod_files, fi, history>>

\* check_mod returns to main; its locals are gone
CmReturn ==
    /\ pc = "cm_ret"
    /\ IF single_arg # <<>>
       THEN /\ pc' = "main_end"
            /\ UNCHANGED mi
       ELSE /\ pc' = "main_loop"
            /\ mi' = mi + 1
    /\ _mod' = <<>>
    /\ mod1_files' = <<>>
    /\ ow_by' = <<>>
    /\ start_checking' = FALSE
    /\ li' = 0
    /\ next_mod' = <<>>
    /\ next_mod_files' = <<>>
    /\ fi' = 0
    /\ outcome' = "none"
    /\ filecount' = 0
    /\ removers' = <<>>
    /\ walked' = 0
    /\ enums' = 0
    /\ UNCHANGED <<inputs, exit_code, all_data_paths, mod_dict, single_mod,
                   calls>>

---------------------------------------------------------------------------

Next ==
    \/ CfgNotFound
    \/ ReadCfg
    \/ NoPaths
    \/ SingleMod
    \/ AllMods
    \/ LoopStep
    \/ LoopEnd
    \/ EndScan
    \/ Interrupt
    \/ CmBegin
    \/ CmBefore
    \/ CmFound
    \/ CmOverwritten
    \/ CmSkipSelf
    \/ CmNextMod
    \/ CmFile
    \/ CmFilesDone
    \/ CmCanStay
    \/ CmReturn

Spec == Init /\ [][Next]_vars

---------------------------------------------------------------------------
(* Vocabulary of the properties                                            *)

\* the path an entry declares: the line without its key, quotes and newline
DeclaredPath(line) ==
    StripChars(IF StartsWith(line, DataPrefix)
               THEN SubSeq(line, Len(DataPrefix) + 1, Len(line))
               ELSE line, QuoteChars)

\* the mod a load-order entry stands for
ModOf(i) == mod_name_from_data_path(all_data_paths[i].line)

\* the directory of the mod m
ModDir(m) == PathJoin(base_mod_dir, m)

\* the files on disk below the directory of m
FilesOf(m) == {k \in 1..Len(fs) : Under(fs[k].r, ModDir(m))}

\* the file k lies in an asset directory
IsAsset(k) ==
    \E d \in 1..Len(OK_DIRS) :
        Contains(Lower(PathJoin(fs[k].r, fs[k].f)), OK_DIRS[d])

\* the lower-cased base names of the asset files of m
AssetNames(m) == {Lower(fs[k].f) : k \in {j \in FilesOf(m) : IsAsset(j)}}

\* m is found in the load order, and where
InLoadOrder(m) ==
    \E i \in 1..Len(all_data_paths) : Contains(all_data_paths[i].line, sep \o m)

PositionOf(m) ==
    CHOOSE i \in 1..Len(all_data_paths) :
        /\ Contains(all_data_paths[i].line, sep \o m)
        /\ \A j \in 1..(i - 1) : ~Contains(all_data_paths[j].line, sep \o m)

\* the entries after m that stand for another mod
LaterEntries(m) ==
    {i \in (PositionOf(m) + 1)..Len(all_data_paths) : ModOf(i) # m}

\* the names of m that no later mod provides
Unprovided(m) ==
    {n \in AssetNames(m) : \A i \in LaterEntries(m) : n \notin AssetNames(ModOf(i))}

NoDuplicates(s) == Cardinality(Range(s)) = Len(s)

\* s without the later occurrences of its elements
RECURSIVE FirstOccurrences(_)
FirstOccurrences(s) ==
    IF s = <<>> THEN <<>>
    ELSE LET front == FirstOccurrences(SubSeq(s, 1, Len(s) - 1))
         IN  IF s[Len(s)] \in Range(front) THEN front
             ELSE Append(front, s[Len(s)])

\* the indices 1..n in order
RECURSIVE UpTo(_)
UpTo(n) == IF n = 0 THEN <<>> ELSE Append(UpTo(n - 1), n)

\* no line of the configuration file is a data path read_openmw_cfg keeps
ZeroEntries ==
    \A i \in 1..Len(cfg_lines) :
        ~(StartsWith(cfg_lines[i], DataPrefix)
          /\ ~Contains(Lower(cfg_lines[i]), DataFiles))

---------------------------------------------------------------------------
(* Properties                                                              *)

\* C1: when check_mod returns for a mod that has asset files and is found in
\* the load order, and every one of its file names is provided by some other
\* mod later in the load order, the outcome is SAFE_TO_REMOVE ("has been
\* overwritten by"), also when the last entry provides the last name.
C1_OverwrittenIsSafeToRemove ==
    (/\ pc = "cm_ret"
     /\ AssetNames(_mod) # {}
     /\ InLoadOrder(_mod)
     /\ Unprovided(_mod) = {})
    => outcome = "SAFE_TO_REMOVE"

\* C2: when check_mod returns for a mod found in the load order of which some
\* file name is provided by no later mod, the outcome is MUST_KEEP ("can
\* stay") and the filecount logged is the number of such names.
C2_UnprovidedIsMustKeep ==
    (/\ pc = "cm_ret"
     /\ InLoadOrder(_mod)
     /\ Unprovided(_mod) # {})
    => /\ outcome = "MUST_KEEP"
       /\ filecount = Cardinality(Unprovided(_mod))

\* C3: when check_mod returns for a mod that has asset files and matches no
\* entry of the load order, the outcome is none of MUST_KEEP, SAFE_TO_REMOVE
\* and NO_FILES.
C3_NotInLoadOrderIsDistinct ==
    (/\ pc = "cm_ret"
     /\ AssetNames(_mod) # {}
     /\ ~InLoadOrder(_mod))
    => outcome \notin {"MUST_KEEP", "SAFE_TO_REMOVE", "NO_FILES"}

\* C4: when check_mod returns for a mod without asset files on disk, the
\* outcome is NO_FILES, no load-order entry was iterated and no other mod's
\* files were enumerated.
C4_NoFilesEndsAtOnce ==
    (pc = "cm_ret" /\ AssetNames(_mod) = {})
    => /\ outcome = "NO_FILES"
       /\ walked = 0
       /\ enums = 0

\* C4 happens: check_mod has returned for a mod whose directory does not exist.
C4_Witness ==
    /\ pc = "cm_ret"
    /\ FilesOf(_mod) = {}
    /\ outcome = "NO_FILES"
    /\ Len(all_data_paths) > 1

\* C5: while check_mod is at a load-order entry whose mod is the mod under
\* analysis, no step removes a file from mod1_files or changes ow_by, and the
\* mod under analysis is never in ow_by.
C5_SelfEntriesNeverOverwrite ==
    [][/\ (/\ pc \in {"cm_loop", "cm_files"}
           /\ li \in 1..Len(all_data_paths)
           /\ ModOf(li) = _mod
           /\ pc' \in {"cm_loop", "cm_files", "cm_ret"})
          => (mod1_files' = mod1_files /\ ow_by' = ow_by)
       /\ _mod' \notin Range(ow_by')]_vars

\* C5 happens: the walk stands at a second entry of the mod under analysis,
\* after the first one was found, with files left to overwrite.
C5_Witness ==
    /\ pc = "cm_loop"
    /\ start_checking
    /\ li \in 2..Len(all_data_paths)
    /\ ModOf(li) = _mod
    /\ ModOf(li - 1) = _mod
    /\ Len(mod1_files) > 0

\* C6: when check_mod returns, ow_by lists the mods that removed a file from
\* mod1_files, each once, in the order of their first removal, and nothing
\* else.
C6_OwByIsFirstRemovals ==
    pc = "cm_ret" => ow_by = FirstOccurrences(removers)

\* C6 happens: check_mod returns after one later mod removed two files and
\* another later mod, enumerated too, removed none.
C6_Witness ==
    /\ pc = "cm_ret"
    /\ Len(removers) > Len(ow_by)
    /\ Len(ow_by) > 0
    /\ enums > Len(ow_by)

\* C7: a run over all mods that ends normally has invoked check_mod for the
\* entries whose declared path is not the base mod directory, once each and
\* in order, and for no other entry.
C7_BaseDirNeverAnalyzed ==
    (pc = "exit" /\ exit_code = <<0>> /\ single_arg = <<>>)
    => [k \in 1..Len(calls) |-> calls[k].entry]
       = SelectSeq(UpTo(Len(all_data_paths)),
                   LAMBDA i : DeclaredPath(all_data_paths[i].line)
                              # base_mod_dir)

\* C8 as stated: read_openmw_cfg yields the lines that start with "data=" and
\* whose value is not, case-insensitively, "data files", in file order,
\* numbered 1, 2, 3, ...
C8_DropsOnlyThePlaceholder ==
    pc = "main_paths"
    => /\ [k \in 1..Len(all_data_paths) |-> all_data_paths[k].line]
          = SelectSeq(cfg_lines,
                      LAMBDA l : /\ StartsWith(l, DataPrefix)
                                 /\ Lower(DeclaredPath(l)) # DataFiles)
       /\ \A k \in 1..Len(all_data_paths) : all_data_paths[k].num = k

\* C8 as amended: read_openmw_cfg yields the lines that start with "data=" and
\* do not contain, case-insensitively, "data files" anywhere, in file order,
\* numbered 1, 2, 3, ...
C8_DropsEveryLineWithThePlaceholder ==
    pc = "main_paths"
    => /\ [k \in 1..Len(all_data_paths) |-> all_data_paths[k].line]
          = SelectSeq(cfg_lines,
                      LAMBDA l : /\ StartsWith(l, DataPrefix)
                                 /\ ~Contains(Lower(l), DataFiles))
       /\ \A k \in 1..Len(all_data_paths) : all_data_paths[k].num = k

\* C8 happens: a file with a line without the key, then a line whose path
\* contains "Data Files", then a line that is kept.
C8_Witness ==
    /\ pc = "main_paths"
    /\ Len(cfg_lines) = 3
    /\ ~StartsWith(cfg_lines[1], DataPrefix)
    /\ cfg_lines[2] = LineVanilla
    /\ Len(all_data_paths) = 1

\* C9: without a configuration file, or with one that yields no entry, no
\* check_mod is ever invoked and a run that is not interrupted exits with 1;
\* check_mod is only invoked with a non-empty load order; any other run that
\* is not interrupted exits with 0.
C9_ExitCodes ==
    /\ (~cfg_exists \/ ZeroEntries) => calls = <<>>
    /\ (pc = "exit" /\ exit_code # <<2>>)
       => exit_code = (IF ~cfg_exists \/ ZeroEntries THEN <<1>> ELSE <<0>>)
    /\ \A k \in 1..Len(calls) : calls[k].npaths > 0

\* C9 happens: the run has exited with 1 on a configuration file that exists,
\* has lines and yields no entry, with a single mod asked for.
C9_Witness ==
    /\ pc = "exit"
    /\ exit_code = <<1>>
    /\ cfg_exists
    /\ Len(cfg_lines) > 1
    /\ single_arg # <<>>

\* C10: mod1_files and next_mod_files hold each name at most once, and the
\* filecount logged counts names.
C10_NamesHeldOnce ==
    /\ NoDuplicates(mod1_files)
    /\ NoDuplicates(next_mod_files)
    /\ (pc = "cm_ret" /\ outcome = "MUST_KEEP")
       => filecount = Cardinality(Range(mod1_files))

====
